---- MODULE Spec2Model ----
(***************************************************************************)
(* asciichartpy.plot(series, cfg) as a state machine.                      *)
(*                                                                         *)
(* One behaviour is one call of plot: Init is the moment of the call (the  *)
(* arguments are bound, no statement has run), and every action is one     *)
(* block of src/asciichartpy/__init__.py, in program order.  The call ends *)
(* in pc = "done" with outcome                                             *)
(*   "empty"         return '' (lines 97, 101)                             *)
(*   "text"          return of the joined rows (line 189)                  *)
(*   "InvalidRange"  the ValueError of line 119                            *)
(*   "IndexError"    a list index out of range (lines 149-187)             *)
(*                                                                         *)
(* Numbers.  Samples are integers or the missing marker NaN; the bounds    *)
(* and height of a config are integers.  ratio = height / interval is kept *)
(* as the exact fraction <<numerator, denominator>>; floor, ceil and round *)
(* are computed on exact fractions (round is Python 3's round half to      *)
(* even).  A formatted label '{:8.2f} '.format(v) is kept as v rounded to  *)
(* hundredths.                                                             *)
(*                                                                         *)
(* Text.  A grid cell is a record (a blank, a label, or a glyph with the   *)
(* strings concatenated before and after it); a line is the row's cells    *)
(* with the trailing blanks stripped; the returned text is the sequence of *)
(* its lines, '' being the empty sequence.                                 *)
(***************************************************************************)
EXTENDS Integers, Sequences, FiniteSets, TLC

VARIABLES
    arg,        \* the `series` argument as passed: [nested, data]
    cfg,        \* the `cfg` argument: every key is <<>> (absent) or <<value>>
    pc,         \* position in plot
    outcome,    \* "running", "empty", "text", "InvalidRange", "IndexError"
    series,     \* the local `series` after line 103: a list of lists
    minimum, maximum,
    symbols, colors,
    interval, offset, ratio,
    min2, max2, rows, width,
    result,     \* the grid: result[r][c], r in 0..rows, c in 0..width-1
    i, x,       \* the loop variables of lines 157 and 160
    text        \* the returned lines

vars == <<arg, cfg, pc, outcome, series, minimum, maximum, symbols, colors,
          interval, offset, ratio, min2, max2, rows, width, result, i, x, text>>

-----------------------------------------------------------------------------
(* Bounds of the model *)

\* total number of samples of a call, over all its series
MaxSamples == 4
\* number of series of a nested call
MaxSeries == 2
\* largest `height` a config sets
MaxHeight == 2

-----------------------------------------------------------------------------
(* Values *)

\* a sample is <<v>>, the number v, or <<>>, float("nan")
NaN == <<>>

Num(v) == <<v>>

Val(n) == n[1]

\* a list of numbers
Nums(vs) == [k \in 1..Len(vs) |-> Num(vs[k])]

isnan(n) == n = NaN

_isnum(n) == ~isnan(n)

\* the numeric samples and the missing marker the calls are built from
SampleValues == {NaN, Num(-1), Num(2)}

\* cfg.get(key, default)
Get(opt, default) == IF opt = <<>> THEN default ELSE opt[1]

\* Python's min(a, b) and max(a, b) of a number a and a sample b: b is
\* returned only when b < a (b > a) is true, which it never is for NaN
PyMin(a, b) == IF _isnum(b) /\ Val(b) < a THEN Val(b) ELSE a

PyMax(a, b) == IF _isnum(b) /\ Val(b) > a THEN Val(b) ELSE a

\* floor, ceil and round of the fraction n / d, d > 0
Floor(n, d) == n \div d

Ceil(n, d) == -((-n) \div d)

Round(n, d) ==
    LET q == n \div d
        r == n % d
    IN  IF 2 * r < d THEN q
        ELSE IF 2 * r > d THEN q + 1
        ELSE IF q % 2 = 0 THEN q ELSE q + 1

\* list[k] = ... and list[k] of a list of length n: a negative k counts from
\* the end, anything else out of 0..n-1 is an IndexError
PyIndex(k, n) == IF k < 0 THEN k + n ELSE k

IndexOk(k, n) == PyIndex(k, n) >= 0 /\ PyIndex(k, n) < n

-----------------------------------------------------------------------------
(* Cells *)

Blank == [kind |-> "blank", pre |-> "", sym |-> " ", post |-> "", val |-> 0]

\* placeholder.format(v): v in hundredths
LabelCell(v) == [kind |-> "label", pre |-> "", sym |-> "{:8.2f} ", post |-> "", val |-> v]

\* pre + sym + post
GlyphCell(pre, sym, post) == [kind |-> "glyph", pre |-> pre, sym |-> sym, post |-> post, val |-> 0]

\* the ten box-drawing glyphs, written as their code points
default_symbols ==
    <<"U+253C", "U+2524", "U+2576", "U+2574", "U+2500",
      "U+2570", "U+256D", "U+256E", "U+256F", "U+2502">>

\* symbols[k], k counted from 0
Sym(k) == symbols[k + 1]

ResetColor == "\\033[0m"

\* the colour lists a config supplies: one entry per series and the reset
Palette == <<"\\033[94m", "\\033[91m", "\\033[92m", "\\033[93m">>

CustomReset == "\\033[39m"

CustomColors(n) == [k \in 1..(n + 1) |-> IF k = n + 1 THEN CustomReset ELSE Palette[k]]

\* colors[k], k counted from 0, and colors[-1]
Color(k) == colors[k + 1]

LastColor == colors[Len(colors)]

-----------------------------------------------------------------------------
(* The calls *)

Some(v) == <<v>>

None == <<>>

DefaultCfg ==
    [minimum |-> None, maximum |-> None, height |-> None, offset |-> None, colors |-> None]

RECURSIVE Sum(_)
Sum(lens) == IF lens = <<>> THEN 0 ELSE Head(lens) + Sum(Tail(lens))

\* samples cut into consecutive lists of the lengths lens
RECURSIVE Split(_, _)
Split(samples, lens) ==
    IF lens = <<>> THEN <<>>
    ELSE <<SubSeq(samples, 1, Head(lens))>>
         \o Split(SubSeq(samples, Head(lens) + 1, Len(samples)), Tail(lens))

\* a flat list of at most MaxSamples samples ([] included)
IsFlatArg(a) ==
    \E n \in 0..MaxSamples : \E d \in [1..n -> SampleValues] :
        a = [nested |-> FALSE, data |-> d]

\* a list of 1..MaxSeries lists holding at most MaxSamples samples together
IsNestedArg(a) ==
    \E k \in 1..MaxSeries : \E lens \in [1..k -> 0..MaxSamples] :
        /\ Sum(lens) <= MaxSamples
        /\ \E d \in [1..Sum(lens) -> SampleValues] :
               a = [nested |-> TRUE, data |-> Split(d, lens)]

\* the number of series of a call
NumSeries(a) == IF a.nested THEN Len(a.data) ELSE 1

\* the configs of the enumerated calls: a colour list with every combination
\* of a minimum, a maximum and a height, set or absent; and, the other keys
\* absent (the default colours), an offset, or bounds wider than the samples
CfgMinimums == {None, Some(1)}

CfgMaximums == {None, Some(1)}

CfgHeights == {None} \cup { Some(h) : h \in 0..MaxHeight }

CfgOffsets == {Some(0), Some(1), Some(10)}

CfgWideMinimums == {None, Some(-2)}

CfgWideMaximums == {None, Some(3)}

IsConfig(c, n) ==
    \/ \E mn \in CfgMinimums, mx \in CfgMaximums, h \in CfgHeights :
           c = [minimum |-> mn, maximum |-> mx, height |-> h, offset |-> None,
                colors |-> Some(CustomColors(n))]
    \/ \E o \in CfgOffsets : c = [DefaultCfg EXCEPT !.offset = o]
    \/ \E mn \in CfgWideMinimums, mx \in CfgWideMaximums :
           c = [DefaultCfg EXCEPT !.minimum = mn, !.maximum = mx]

\* the calls of the docstring and of the documented scenarios
DocumentedCalls ==
    { [series |-> [nested |-> FALSE, data |-> Nums(<<1, 2, 3, 4, 3, 2, 1>>)], cfg |-> DefaultCfg],
      [series |-> [nested |-> FALSE, data |-> Nums(<<1, 2, 3, 4>>) \o <<NaN>> \o Nums(<<4, 3, 2, 1>>)], cfg |-> DefaultCfg],
      [series |-> [nested |-> FALSE, data |-> Nums(<<1, 2, 3, 4>>) \o <<NaN>> \o Nums(<<4, 3, 2, 1>>)],
       cfg |-> [DefaultCfg EXCEPT !.minimum = Some(2)]],
      [series |-> [nested |-> FALSE, data |-> Nums(<<1, 2, 3, 4>>)],
       cfg |-> [DefaultCfg EXCEPT !.minimum = Some(2), !.maximum = Some(3)]],
      [series |-> [nested |-> FALSE, data |-> <<Num(1), NaN, Num(3)>>], cfg |-> DefaultCfg],
      [series |-> [nested |-> FALSE, data |-> Nums(<<5, 5, 5, 5>>)], cfg |-> DefaultCfg],
      [series |-> [nested |-> FALSE, data |-> Nums(<<10, 20, 30, 40, 50, 40, 30, 20, 10>>)],
       cfg |-> [DefaultCfg EXCEPT !.height = Some(4)]],
      [series |-> [nested |-> FALSE, data |-> Nums(<<10, 20, 30, 40, 50, 40, 30, 20, 10>>)],
       cfg |-> [DefaultCfg EXCEPT !.height = Some(4),
                                  !.colors = Some(<<"\\033[94m", "\\033[0m">>)]] }

Init ==
    /\ \/ (IsFlatArg(arg) \/ IsNestedArg(arg)) /\ IsConfig(cfg, NumSeries(arg))
       \/ \E call \in DocumentedCalls : arg = call.series /\ cfg = call.cfg
    /\ pc = "start"
    /\ outcome = "running"
    /\ series = <<>>
    /\ minimum = 0
    /\ maximum = 0
    /\ symbols = <<>>
    /\ colors = <<>>
    /\ interval = 0
    /\ offset = 0
    /\ ratio = <<1, 1>>
    /\ min2 = 0
    /\ max2 = 0
    /\ rows = 0
    /\ width = 0
    /\ result = <<>>
    /\ i = 0
    /\ x = 0
    /\ text = <<>>

-----------------------------------------------------------------------------
(* Lines 96-103: the degenerate inputs, and a flat list wrapped *)

Return(t) ==
    /\ pc' = "done"
    /\ outcome' = IF t = <<>> THEN "empty" ELSE "text"
    /\ text' = t

Raise(e) ==
    /\ pc' = "done"
    /\ outcome' = e
    /\ text' = text

\* all(isnan(n) for n in series)
AllMissing(s) == \A k \in 1..Len(s) : isnan(s[k])

EmptySeries ==
    /\ pc = "start"
    /\ Len(arg.data) = 0
    /\ Return(<<>>)
    /\ UNCHANGED <<arg, cfg, series, minimum, maximum, symbols, colors, interval,
                   offset, ratio, min2, max2, rows, width, result, i, x>>

FlatAllMissing ==
    /\ pc = "start"
    /\ Len(arg.data) # 0
    /\ ~arg.nested
    /\ AllMissing(arg.data)
    /\ Return(<<>>)
    /\ UNCHANGED <<arg, cfg, series, minimum, maximum, symbols, colors, interval,
                   offset, ratio, min2, max2, rows, width, result, i, x>>

Normalise ==
    /\ pc = "start"
    /\ Len(arg.data) # 0
    /\ ~(~arg.nested /\ AllMissing(arg.data))
    /\ series' = IF arg.nested THEN arg.data ELSE <<arg.data>>
    /\ pc' = "range"
    /\ UNCHANGED <<arg, cfg, outcome, minimum, maximum, symbols, colors, interval,
                   offset, ratio, min2, max2, rows, width, result, i, x, text>>

-----------------------------------------------------------------------------
(* Lines 105-119: the range *)

\* every series[i][j] in the order of the loops of lines 109-110
RECURSIVE Samples(_)
Samples(ss) == IF ss = <<>> THEN <<>> ELSE Head(ss) \o Samples(Tail(ss))

RECURSIVE MinOver(_, _)
MinOver(acc, s) == IF s = <<>> THEN acc ELSE MinOver(PyMin(acc, Head(s)), Tail(s))

RECURSIVE MaxOver(_, _)
MaxOver(acc, s) == IF s = <<>> THEN acc ELSE MaxOver(PyMax(acc, Head(s)), Tail(s))

\* a mutant of MergedMinimum: the samples are not merged into the minimum
MergedMinimumOfCfgOnly == Get(cfg.minimum, 0)

\* lines 106, 109-111
MergedMinimum == MinOver(Get(cfg.minimum, 0), Samples(series))

\* lines 107, 109-112
MergedMaximum == MaxOver(Get(cfg.maximum, 0), Samples(series))

\* line 116
DefaultColors == [k \in 1..(Len(series) + 1) |-> ResetColor]

ResolveRange ==
    /\ pc = "range"
    /\ minimum' = MergedMinimum
    /\ maximum' = MergedMaximum
    /\ symbols' = default_symbols
    /\ colors' = Get(cfg.colors, DefaultColors)
    /\ IF MergedMinimum > MergedMaximum
       THEN Raise("InvalidRange")
       ELSE pc' = "scale" /\ UNCHANGED <<outcome, text>>
    /\ UNCHANGED <<arg, cfg, series, interval, offset, ratio, min2, max2, rows,
                   width, result, i, x>>

-----------------------------------------------------------------------------
(* Lines 121-142: the scale *)

DefaultOffset == 3

\* line 124: height / interval if interval > 0 else 1, as a fraction
Ratio(height, intv) == IF intv > 0 THEN <<height, intv>> ELSE <<1, 1>>

\* a mutant of Min2: the lower tick is rounded up
Min2RoundedUp(mn, r) == Ceil(mn * r[1], r[2])

\* line 126
Min2(mn, r) == Floor(mn * r[1], r[2])

\* line 127
Max2(mx, r) == Ceil(mx * r[1], r[2])

\* lines 137-140
RECURSIVE Longest(_)
Longest(ss) ==
    IF ss = <<>> THEN 0
    ELSE IF Len(Head(ss)) > Longest(Tail(ss)) THEN Len(Head(ss)) ELSE Longest(Tail(ss))

Scale ==
    /\ pc = "scale"
    /\ LET intv == maximum - minimum
           height == Get(cfg.height, intv)
           r == Ratio(height, intv)
       IN  /\ interval' = intv
           /\ offset' = Get(cfg.offset, DefaultOffset)
           /\ ratio' = r
           /\ min2' = Min2(minimum, r)
           /\ max2' = Max2(maximum, r)
           /\ rows' = Max2(maximum, r) - Min2(minimum, r)
           /\ width' = Longest(series) + Get(cfg.offset, DefaultOffset)
    /\ pc' = "grid"
    /\ UNCHANGED <<arg, cfg, outcome, series, minimum, maximum, symbols, colors,
                   result, i, x, text>>

\* lines 129-130
clamp(n) ==
    LET lo == IF n > minimum THEN n ELSE minimum
    IN  IF lo < maximum THEN lo ELSE maximum

\* lines 132-133
scaled(y) == Round(clamp(y) * ratio[1], ratio[2]) - min2

-----------------------------------------------------------------------------
(* Line 144: the grid *)

Allocate ==
    /\ pc = "grid"
    /\ result' = [r \in 0..rows |-> [c \in 0..(width - 1) |-> Blank]]
    /\ pc' = "axis"
    /\ UNCHANGED <<arg, cfg, outcome, series, minimum, maximum, symbols, colors,
                   interval, offset, ratio, min2, max2, rows, width, i, x, text>>

\* a write result[r][c] = cell is <<r, c, cell>>
WriteOk(w) == IndexOk(w[1], rows + 1) /\ IndexOk(w[2], width)

\* a mutant of Written: a cell that holds a glyph keeps it
RECURSIVE WrittenOnceOnly(_, _)
WrittenOnceOnly(grid, ws) ==
    IF ws = <<>> THEN grid
    ELSE LET w == Head(ws)
             r == PyIndex(w[1], rows + 1)
             c == PyIndex(w[2], width)
         IN  WrittenOnceOnly(IF grid[r][c].kind = "glyph" THEN grid
                             ELSE [grid EXCEPT ![r][c] = w[3]], Tail(ws))

RECURSIVE Written(_, _)
Written(grid, ws) ==
    IF ws = <<>> THEN grid
    ELSE LET w == Head(ws)
         IN  Written([grid EXCEPT ![PyIndex(w[1], rows + 1)][PyIndex(w[2], width)] = w[3]],
                     Tail(ws))

\* the writes ws made in order, then the jump to `next`; the first write out
\* of the grid raises instead
Store(ws, next) ==
    IF \A k \in 1..Len(ws) : WriteOk(ws[k])
    THEN result' = Written(result, ws) /\ pc' = next /\ outcome' = outcome
    ELSE result' = result /\ pc' = "done" /\ outcome' = "IndexError"

-----------------------------------------------------------------------------
(* Lines 146-150: axis and labels *)

\* len(label) of the default format
LabelLength == 9

\* rows if rows else 1
RowsOrOne == IF rows # 0 THEN rows ELSE 1

\* line 148: the label of tick y, in hundredths
Label(y) == Round(100 * (maximum * RowsOrOne - (y - min2) * interval), RowsOrOne)

\* line 149: max(offset - len(label), 0)
LabelColumn == IF offset - LabelLength > 0 THEN offset - LabelLength ELSE 0

\* line 150: the zero tick mark
Tick(y) == IF y = 0 THEN Sym(0) ELSE Sym(1)

\* lines 149-150 for tick y
TickWrites(y) ==
    << <<y - min2, LabelColumn, LabelCell(Label(y))>>,
       <<y - min2, offset - 1, GlyphCell("", Tick(y), "")>> >>

\* the writes of the loop of line 147, from tick y on
RECURSIVE AxisWrites(_)
AxisWrites(y) == IF y > max2 THEN <<>> ELSE TickWrites(y) \o AxisWrites(y + 1)

PaintAxis ==
    /\ pc = "axis"
    /\ Store(AxisWrites(min2), "first")
    /\ UNCHANGED <<arg, cfg, series, minimum, maximum, symbols, colors, interval,
                   offset, ratio, min2, max2, rows, width, i, x, text>>

-----------------------------------------------------------------------------
(* Lines 152-155: the first value is a tick mark across the y-axis *)

\* the first (i, x) at or after (k, j) that the loops of lines 157 and 160
\* reach; (len(series), 0) when they are over
RECURSIVE LoopFrom(_, _)
LoopFrom(k, j) ==
    IF k >= Len(series) THEN <<Len(series), 0>>
    ELSE IF j < Len(series[k + 1]) - 1 THEN <<k, j>>
    ELSE LoopFrom(k + 1, 0)

FirstTick ==
    /\ pc = "first"
    /\ IF Len(series[1]) = 0
       THEN /\ pc' = "done"
            /\ outcome' = "IndexError"
            /\ UNCHANGED <<result, i, x>>
       ELSE /\ LET d0 == series[1][1]
               IN  IF _isnum(d0)
                   THEN Store(<< <<rows - scaled(Val(d0)), offset - 1, GlyphCell("", Sym(0), "")>> >>,
                              "plot")
                   ELSE pc' = "plot" /\ UNCHANGED <<result, outcome>>
            /\ i' = LoopFrom(0, 0)[1]
            /\ x' = LoopFrom(0, 0)[2]
    /\ UNCHANGED <<arg, cfg, series, minimum, maximum, symbols, colors, interval,
                   offset, ratio, min2, max2, rows, width, text>>

-----------------------------------------------------------------------------
(* Lines 157-187: plot the line *)

\* colors[i] + symbols[k] + colors[-1]
Wrapped(k) == GlyphCell(Color(i), Sym(k), LastColor)

\* series[i][x + 0] and series[i][x + 1]
D0 == series[i + 1][x + 1]

D1 == series[i + 1][x + 2]

InLoop == pc = "plot" /\ i < Len(series)

\* the writes of one pass of the loop body, then the next pass
Pass(ws) ==
    /\ Store(ws, "plot")
    /\ i' = LoopFrom(i, x + 1)[1]
    /\ x' = LoopFrom(i, x + 1)[2]
    /\ UNCHANGED <<arg, cfg, series, minimum, maximum, symbols, colors, interval,
                   offset, ratio, min2, max2, rows, width, text>>

\* lines 164-165
BothMissing ==
    /\ InLoop
    /\ isnan(D0) /\ isnan(D1)
    /\ Pass(<<>>)

\* lines 167-169
RiseFromGap ==
    /\ InLoop
    /\ isnan(D0) /\ _isnum(D1)
    /\ Pass(<< <<rows - scaled(Val(D1)), x + offset, Wrapped(2)>> >>)

\* lines 171-173
FallIntoGap ==
    /\ InLoop
    /\ _isnum(D0) /\ isnan(D1)
    /\ Pass(<< <<rows - scaled(Val(D0)), x + offset, Wrapped(3)>> >>)

\* lines 175-179
Flat ==
    /\ InLoop
    /\ _isnum(D0) /\ _isnum(D1)
    /\ scaled(Val(D0)) = scaled(Val(D1))
    /\ Pass(<< <<rows - scaled(Val(D0)), x + offset, Wrapped(4)>> >>)

\* lines 184-187: range(start, end) from y on
RECURSIVE FillWrites(_, _)
FillWrites(y, end) ==
    IF y >= end THEN <<>>
    ELSE << <<rows - y, x + offset, Wrapped(9)>> >> \o FillWrites(y + 1, end)

\* a mutant of CornerWrites: the corners of a rise and of a fall exchanged
CornerWritesExchanged(y0, y1) ==
    << <<rows - y1, x + offset, IF y0 < y1 THEN Wrapped(5) ELSE Wrapped(6)>>,
       <<rows - y0, x + offset, IF y0 < y1 THEN Wrapped(7) ELSE Wrapped(8)>> >>

\* lines 181-182
CornerWrites(y0, y1) ==
    << <<rows - y1, x + offset, IF y0 > y1 THEN Wrapped(5) ELSE Wrapped(6)>>,
       <<rows - y0, x + offset, IF y0 > y1 THEN Wrapped(7) ELSE Wrapped(8)>> >>

\* lines 175-176, 181-187
Slope ==
    /\ InLoop
    /\ _isnum(D0) /\ _isnum(D1)
    /\ scaled(Val(D0)) # scaled(Val(D1))
    /\ LET y0 == scaled(Val(D0))
           y1 == scaled(Val(D1))
           start == (IF y0 < y1 THEN y0 ELSE y1) + 1
           end == IF y0 > y1 THEN y0 ELSE y1
       IN  Pass(CornerWrites(y0, y1) \o FillWrites(start, end))

-----------------------------------------------------------------------------
(* Line 189: the text *)

\* row as the list of its cells
Cells(row) == [k \in 1..width |-> row[k - 1]]

\* ''.join(row).rstrip()
RECURSIVE rstrip(_)
rstrip(line) ==
    IF line # <<>> /\ line[Len(line)].kind = "blank"
    THEN rstrip(SubSeq(line, 1, Len(line) - 1))
    ELSE line

\* '\n'.join(lines): one empty line is the empty text
Joined(lines) == IF lines = << <<>> >> THEN <<>> ELSE lines

Serialize ==
    /\ pc = "plot"
    /\ i = Len(series)
    /\ Return(Joined([r \in 1..(rows + 1) |-> rstrip(Cells(result[r - 1]))]))
    /\ UNCHANGED <<arg, cfg, series, minimum, maximum, symbols, colors, interval,
                   offset, ratio, min2, max2, rows, width, result, i, x>>

-----------------------------------------------------------------------------

Next ==
    \/ EmptySeries
    \/ FlatAllMissing
    \/ Normalise
    \/ ResolveRange
    \/ Scale
    \/ Allocate
    \/ PaintAxis
    \/ FirstTick
    \/ BothMissing
    \/ RiseFromGap
    \/ FallIntoGap
    \/ Flat
    \/ Slope
    \/ Serialize

Spec == Init /\ [][Next]_vars

-----------------------------------------------------------------------------
(* What the claims speak of *)

\* the range is resolved (line 119 is passed or has raised)
RangeResolved ==
    \/ pc \in {"scale", "grid", "axis", "first", "plot"}
    \/ pc = "done" /\ outcome \in {"text", "IndexError", "InvalidRange"}

\* ratio, min2, max2, rows and width are computed
ScaleComputed ==
    \/ pc \in {"grid", "axis", "first", "plot"}
    \/ pc = "done" /\ outcome \in {"text", "IndexError"}

\* the input is degenerate: no series, or a flat series entirely missing
Degenerate == Len(arg.data) = 0 \/ (~arg.nested /\ AllMissing(arg.data))

\* the numbers among the samples of the call
ArgSeries == IF arg.nested THEN arg.data ELSE <<arg.data>>

NumericValues ==
    UNION { { Val(ArgSeries[k][j]) : j \in { n \in 1..Len(ArgSeries[k]) : _isnum(ArgSeries[k][n]) } } :
            k \in 1..Len(ArgSeries) }

Least(S) == CHOOSE v \in S : \A w \in S : v <= w

Greatest(S) == CHOOSE v \in S : \A w \in S : v >= w

\* the row, counted from the top, of the number v
RowOf(v) == rows - scaled(v)

\* the glyph that pair j of series k (both counted from 0) puts on row r of
\* column j + offset; "" when it puts none there
PairGlyph(k, j, r) ==
    LET a == series[k + 1][j + 1]
        b == series[k + 1][j + 2]
    IN  IF isnan(a) /\ isnan(b) THEN ""
        ELSE IF isnan(a) THEN (IF r = RowOf(Val(b)) THEN "U+2576" ELSE "")
        ELSE IF isnan(b) THEN (IF r = RowOf(Val(a)) THEN "U+2574" ELSE "")
        ELSE LET ra == RowOf(Val(a))
                 rb == RowOf(Val(b))
                 descending == Val(a) > Val(b)
             IN  IF ra = rb THEN (IF r = ra THEN "U+2500" ELSE "")
                 ELSE IF r = rb THEN (IF descending THEN "U+2570" ELSE "U+256D")
                 ELSE IF r = ra THEN (IF descending THEN "U+256E" ELSE "U+256F")
                 ELSE IF (ra < r /\ r < rb) \/ (rb < r /\ r < ra) THEN "U+2502"
                 ELSE ""

\* colors[k] + glyph + colors[last]
InColour(k, glyph) == GlyphCell(colors[k + 1], glyph, colors[Len(colors)])

\* the series whose line puts a glyph on the cell (r, c)
Writers(r, c) ==
    { k \in 0..(Len(series) - 1) :
        /\ c - offset >= 0
        /\ c - offset <= Len(series[k + 1]) - 2
        /\ PairGlyph(k, c - offset, r) # "" }

-----------------------------------------------------------------------------
(* The claims *)

\* C1: a call on a non-degenerate input with a valid config returns a text of
\* exactly rows + 1 lines, rows = max2 - min2 >= 0; a call on an empty series
\* collection or on a flat series entirely missing returns exactly ''.
C1_LineCount ==
    pc = "done" /\ outcome # "InvalidRange" =>
        IF Degenerate
        THEN outcome = "empty" /\ text = <<>>
        ELSE /\ outcome = "text"
             /\ rows = max2 - min2
             /\ rows >= 0
             /\ Len(text) = rows + 1

\* C2: a minimum or maximum the config supplies is the effective axis bound,
\* and a sample outside them is drawn on the row of the nearest bound; with
\* minimum 2, maximum 3 and [1, 2, 3, 4] the axis spans 2..3 only.
C2_SuppliedBoundsAreAxisBounds ==
    ScaleComputed =>
        /\ cfg.minimum # None =>
               /\ minimum = cfg.minimum[1]
               /\ \A v \in NumericValues : v < cfg.minimum[1] => RowOf(v) = RowOf(cfg.minimum[1])
        /\ cfg.maximum # None =>
               /\ maximum = cfg.maximum[1]
               /\ \A v \in NumericValues : v > cfg.maximum[1] => RowOf(v) = RowOf(cfg.maximum[1])

\* C3: every numeric sample s has scaled(s) in [0, rows], so every row
\* rows - scaled(s) the line painter writes is in [0, rows] and every column
\* x + offset it writes is in [offset, width - 1], width being offset plus the
\* longest series: no write of the line painter falls outside the grid.
C3_ScaledWithinGrid ==
    ScaleComputed =>
        /\ width = offset + Longest(series)
        /\ \A v \in NumericValues :
               /\ scaled(v) >= 0 /\ scaled(v) <= rows
               /\ RowOf(v) >= 0 /\ RowOf(v) <= rows
        /\ \A k \in 1..Len(series) : \A j \in 0..(Len(series[k]) - 2) :
               j + offset >= offset /\ j + offset <= width - 1
        /\ outcome = "IndexError" => Len(series[1]) = 0

C3_Witness ==
    /\ pc = "done" /\ outcome = "text"
    /\ ratio[1] % ratio[2] # 0
    /\ rows >= 2
    /\ \E v \in NumericValues : scaled(v) = rows
    /\ \E r \in 0..rows : \E c \in offset..(width - 1) : result[r][c].kind = "glyph"

\* C4: the pair (d0, d1) at (x, x + 1) of series i writes column x + offset
\* only: nothing when both are missing, the rise-from-gap glyph on d1's row,
\* the fall-into-gap glyph on d0's row, the flat glyph on the common row, or
\* the two corners on d1's and d0's rows with the vertical fill on every row
\* strictly between; each glyph wrapped in colors[i] and colors[last].
C4_PairStep ==
    pc = "plot" /\ i < Len(series) =>
        /\ outcome' = outcome
        /\ result' = [r \in 0..rows |-> [c \in 0..(width - 1) |->
                         IF c = x + offset /\ PairGlyph(i, x, r) # ""
                         THEN InColour(i, PairGlyph(i, x, r))
                         ELSE result[r][c]]]

C4_PairWrites == [][C4_PairStep]_vars

\* a finished chart with a rise drawn over three rows in one column
C4_Witness ==
    /\ pc = "done" /\ outcome = "text"
    /\ \E c \in offset..(width - 1) : \E r \in 1..(rows - 1) :
           /\ result[r - 1][c].sym = "U+256D"
           /\ result[r][c].sym = "U+2502"
           /\ result[r + 1][c].sym = "U+256F"

\* the minimum and the maximum merged from the config and the samples of all
\* series, as numbers of the call
LowestOfCall == Least({Get(cfg.minimum, 0)} \cup NumericValues)

HighestOfCall == Greatest({Get(cfg.maximum, 0)} \cup NumericValues)

\* C5, as claimed: plot raises InvalidRange exactly when the minimum merged
\* from the config and the samples of all series exceeds the merged maximum,
\* and then no grid is built and no text produced.
C5_InvalidRangeIffMinAboveMax ==
    pc = "done" =>
        /\ outcome = "InvalidRange" <=> LowestOfCall > HighestOfCall
        /\ outcome = "InvalidRange" => result = <<>> /\ text = <<>>

\* C5, amended: on an input that is not degenerate (a series collection that
\* is not empty and not a flat series entirely missing) plot raises
\* InvalidRange exactly when the merged minimum exceeds the merged maximum,
\* before any grid is built and with no text; on a degenerate input it
\* returns '' whatever the config.
C5_InvalidRangeUnlessDegenerate ==
    /\ outcome = "InvalidRange" =>
           /\ pc = "done" /\ ~Degenerate
           /\ LowestOfCall > HighestOfCall
           /\ result = <<>> /\ text = <<>>
    /\ RangeResolved =>
           /\ ~Degenerate
           /\ minimum = LowestOfCall /\ maximum = HighestOfCall
           /\ LowestOfCall > HighestOfCall => outcome = "InvalidRange"
    /\ pc = "done" /\ Degenerate => outcome = "empty"

C5_Witness ==
    /\ outcome = "InvalidRange"
    /\ minimum > maximum
    /\ ~Degenerate

\* C6: a call ends in the rendered text (possibly '') or in InvalidRange; no
\* other failure, such as an index out of range, is reachable.
C6_TextOrInvalidRange ==
    pc = "done" => outcome \in {"empty", "text", "InvalidRange"}

\* C7: with no minimum and no maximum in the config the resolved range is the
\* minimum and maximum of the samples; [1, 2, 3, 4, 3, 2, 1] gives 4 axis rows
\* labelled 4, 3, 2, 1.
C7_DefaultRangeIsDataRange ==
    /\ RangeResolved /\ cfg.minimum = None /\ cfg.maximum = None /\ NumericValues # {} =>
           minimum = Least(NumericValues) /\ maximum = Greatest(NumericValues)
    /\ pc = "done" /\ arg.data = Nums(<<1, 2, 3, 4, 3, 2, 1>>) /\ cfg = DefaultCfg =>
           /\ Len(text) = 4
           /\ \A r \in 0..3 : result[r][LabelColumn] = LabelCell(100 * (4 - r))

\* C8: for a range with interval > 0 and a positive integer height, rows
\* equals height, whatever the resolved minimum and maximum.
C8_RowsEqualHeight ==
    ScaleComputed /\ interval > 0 /\ cfg.height # None =>
        (cfg.height[1] > 0 => rows = cfg.height[1])

\* C9: series are painted in ascending index and a later write replaces the
\* cell: a cell that several series write ends as colors[j] + glyph + 
\* colors[last] of the last of them, j, and a cell one series i writes as
\* colors[i] + glyph + colors[last].
C9_LaterSeriesWins ==
    pc = "done" /\ outcome = "text" =>
        \A r \in 0..rows : \A c \in 0..(width - 1) :
            Writers(r, c) # {} =>
                LET j == Greatest(Writers(r, c))
                IN  result[r][c] = InColour(j, PairGlyph(j, c - offset, r))

\* two series of different colours wrote different glyphs on one cell
C9_Witness ==
    /\ pc = "done" /\ outcome = "text"
    /\ cfg.colors # None
    /\ \E r \in 0..rows : \E c \in 0..(width - 1) :
           /\ Writers(r, c) = {0, 1}
           /\ PairGlyph(0, c - offset, r) # PairGlyph(1, c - offset, r)

\* C10: the axis painter, before the first sample is stamped, puts the
\* zero-tick glyph on the row of value 0, the row rows - scaled(0), when 0 is
\* within [minimum, maximum], and the generic tick glyph on every other row.
C10_ZeroTickOnRowOfZero ==
    pc = "first" =>
        \A r \in 0..rows :
            result[r][PyIndex(offset - 1, width)].sym =
                IF minimum <= 0 /\ 0 <= maximum /\ r = RowOf(0) THEN "U+253C" ELSE "U+2524"

====
